---- MODULE Spec2Model ----
(***************************************************************************)
(* Model of AI-CV-App/app.py: a Streamlit form that builds a prompt from   *)
(* the entered career details, calls the chat-completion endpoint once,    *)
(* splits the answer into a resume and a cover letter and offers both for  *)
(* download as TXT, PDF or DOCX.                                            *)
(*                                                                         *)
(* Text is a sequence of characters; a character is a one-character        *)
(* string, and a code point outside Latin-1 is written by its name         *)
(* ("U+2014").  Python offsets are kept 0-based, as in the source.         *)
(***************************************************************************)
EXTENDS Integers, Sequences, FiniteSets, TLC

\* ------------------------------------------------------------ bounds
MaxPieces == 4
MaxLines == 50

\* ------------------------------------------------------------ characters
EmDash == "U+2014"
Bullet == "U+2022"
\* the characters str.strip() removes, among those the model's texts use
Whitespace == {" ", "\n", "\r", "\t"}
\* the characters the core font's encoding (latin-1) cannot encode
NonLatin1 == {EmDash, Bullet}

PyNone == "<None>"

ResumeMarker == <<"-", "-", "-", "R", "E", "S", "U", "M", "E", "-", "-", "-">>
CoverMarker == <<"-", "-", "-", "C", "O", "V", "E", "R", " ",
                 "L", "E", "T", "T", "E", "R", "-", "-", "-">>
ResumeLines == 40

\* ------------------------------------------------------------ str methods
RECURSIVE LStrip(_)
LStrip(s) ==
    IF s # <<>> /\ Head(s) \in Whitespace THEN LStrip(Tail(s)) ELSE s

RECURSIVE RStrip(_)
RStrip(s) ==
    IF s # <<>> /\ s[Len(s)] \in Whitespace
    THEN RStrip(SubSeq(s, 1, Len(s) - 1))
    ELSE s

\* str.strip()
Strip(s) == RStrip(LStrip(s))

\* s[a:b] for 0 <= a, 0 <= b <= len(s); empty when b <= a
Slice(s, a, b) == IF b <= a THEN <<>> ELSE SubSeq(s, a + 1, b)

\* the lowest offset k in lo..hi with s[k : k+len(sub)] == sub, or -1; the
\* range is searched by halves, the lower half first
RECURSIVE FindIn(_, _, _, _)
FindIn(s, sub, lo, hi) ==
    IF lo > hi THEN -1
    ELSE IF lo = hi
         THEN (IF SubSeq(s, lo + 1, lo + Len(sub)) = sub THEN lo ELSE -1)
    ELSE LET mid == (lo + hi) \div 2
             low == FindIn(s, sub, lo, mid)
         IN IF low # -1 THEN low ELSE FindIn(s, sub, mid + 1, hi)

\* str.rindex(sub): the highest offset instead of the lowest
RECURSIVE FindLastIn(_, _, _, _)
FindLastIn(s, sub, lo, hi) ==
    IF lo > hi THEN -1
    ELSE IF lo = hi
         THEN (IF SubSeq(s, lo + 1, lo + Len(sub)) = sub THEN lo ELSE -1)
    ELSE LET mid == (lo + hi) \div 2
             high == FindLastIn(s, sub, mid + 1, hi)
         IN IF high # -1 THEN high ELSE FindLastIn(s, sub, lo, mid)
IndexLast(s, sub) == FindLastIn(s, sub, 0, Len(s) - Len(sub))

\* str.index(sub), used only where `sub in s` holds
Index(s, sub) == FindIn(s, sub, 0, Len(s) - Len(sub))

\* `sub in s`
In(sub, s) == FindIn(s, sub, 0, Len(s) - Len(sub)) # -1

\* str.splitlines(): breaks at \n, \r and \r\n, no empty last line after a
\* final break.  EndsBreak(s, i): a line break ends at position i.
EndsBreak(s, i) ==
    \/ s[i] = "\n"
    \/ s[i] = "\r" /\ ~(i < Len(s) /\ s[i + 1] = "\n")

SplitLines(s) ==
    LET ends == SelectSeq([i \in 1..Len(s) |-> i], LAMBDA i : EndsBreak(s, i))
        start(k) == IF k = 1 THEN 1 ELSE ends[k - 1] + 1
        stop(k) ==
            IF k > Len(ends) THEN Len(s)
            ELSE IF s[ends[k]] = "\n" /\ ends[k] > 1 /\ s[ends[k] - 1] = "\r"
                 THEN ends[k] - 2
            ELSE ends[k] - 1
        n == IF s = <<>> \/ (ends # <<>> /\ ends[Len(ends)] = Len(s))
             THEN Len(ends) ELSE Len(ends) + 1
    IN [k \in 1..n |-> SubSeq(s, start(k), stop(k))]

\* "\n".join(lines[a..b]), joined by halves
RECURSIVE JoinRange(_, _, _)
JoinRange(lines, a, b) ==
    IF a > b THEN <<>>
    ELSE IF a = b THEN lines[a]
    ELSE LET mid == (a + b) \div 2
         IN JoinRange(lines, a, mid) \o <<"\n">> \o JoinRange(lines, mid + 1, b)

\* "\n".join(lines)
Join(lines) == JoinRange(lines, 1, Len(lines))

\* lines[:n + 1]
TakeOneMore(lines, n) ==
    SubSeq(lines, 1, IF n + 1 < Len(lines) THEN n + 1 ELSE Len(lines))

\* lines[:n] and lines[n:]
Take(lines, n) == SubSeq(lines, 1, IF n < Len(lines) THEN n ELSE Len(lines))
Drop(lines, n) == SubSeq(lines, n + 1, Len(lines))

\* str.replace(" ", "_")
ReplaceSpaces(s) == [i \in 1..Len(s) |-> IF s[i] = " " THEN "_" ELSE s[i]]

\* Python `a or b` on text: b when a is empty
Or(a, b) == IF a # <<>> THEN a ELSE b

\* ------------------------------------------------------------ CONFIG
\* st.secrets["OPENAI_API_KEY"] / os.getenv("OPENAI_API_KEY"); PyNone when unset
LoadKey(secret, env) == IF secret # PyNone THEN secret ELSE env

\* `OPENAI_KEY is None`
MissingNoneOnly(key) == key = PyNone

\* `not OPENAI_KEY`
Missing(key) == key = PyNone \/ key = ""

\* ------------------------------------------------------------ what the page shows
Msg(kind, text, cause) == [kind |-> kind, text |-> text, cause |-> cause]

KeyWarning ==
    Msg("warning", "OpenAI API key not found. Set OPENAI_API_KEY in Streamlit secrets or environment variable.", "")
NoKeyError ==
    Msg("error", "No OpenAI API key found. Add OPENAI_API_KEY to Streamlit secrets or environment.", "")
Generating == Msg("info", "Generating - please wait...", "")
OpenAIError(e) == Msg("error", "OpenAI error: ", e)
GenerationFailed ==
    Msg("error", "Generation failed. Check API key, model availability, and quota.", "")
Generated ==
    Msg("success", "Generated - review and tweak before sending to employers.", "")
Subheader(text) == Msg("subheader", text, "")
\* an exception no handler catches: Streamlit shows it and the run ends
Uncaught(e) == Msg("exception", "", e)

\* every run of the script starts by re-reading the key
Startup(key) == IF Missing(key) THEN <<KeyWarning>> ELSE <<>>

NoCoverDetected == <<"(no cover letter detected)">>

\* ------------------------------------------------------------ HELPERS
CandidateName == <<"C", "a", "n", "d", "i", "d", "a", "t", "e", " ", "N", "a", "m", "e">>
TargetRole == <<"T", "a", "r", "g", "e", "t", " ", "R", "o", "l", "e">>
Candidate == <<"c", "a", "n", "d", "i", "d", "a", "t", "e">>

\* the placeholders tested on the text as entered
payload_unstripped(f) ==
    [name |-> Or(f.name, CandidateName),
     role |-> Or(f.role, TargetRole),
     email |-> Strip(f.email),
     location |-> Strip(f.location),
     experience |-> Strip(f.experience),
     education |-> Strip(f.education),
     skills |-> Strip(f.skills),
     extra |-> Strip(f.extra),
     tone |-> f.tone]

\* lines 126-136
payload(f) ==
    [name |-> Or(Strip(f.name), CandidateName),
     role |-> Or(Strip(f.role), TargetRole),
     email |-> Strip(f.email),
     location |-> Strip(f.location),
     experience |-> Strip(f.experience),
     education |-> Strip(f.education),
     skills |-> Strip(f.skills),
     extra |-> Strip(f.extra),
     tone |-> f.tone]

Line(label, value) == [label |-> label, value |-> value]

\* the "User info" block of the prompt, one entry per interpolated line; the
\* instruction text around it does not depend on the data
make_prompt(data) ==
    << Line("Name", data.name),
       Line("Target role", data.role),
       Line("Location", data.location),
       Line("Email", data.email),
       Line("Experience (raw text)", data.experience),
       Line("Education", data.education),
       Line("Skills", data.skills),
       Line("Tone", <<data.tone>>),
       Line("Extra notes", data.extra) >>

\* what call_openai returns
None == [none |-> TRUE, text |-> <<>>]
Text(s) == [none |-> FALSE, text |-> s]
\* `if result is not None:`
TruthyNotNone(r) == ~r.none

\* `if result:`
Truthy(r) == ~r.none /\ r.text # <<>>

HasNonLatin1(s) == \E i \in 1..Len(s) : s[i] \in NonLatin1

\* FPDF with the core font Arial encodes its text as latin-1 and raises on
\* any other character; else one cell for the title and one multi_cell a line
text_to_pdf_bytes(title, body_text) ==
    IF HasNonLatin1(title) \/ HasNonLatin1(body_text)
    THEN [raised |-> TRUE, bytes |-> <<>>]
    ELSE [raised |-> FALSE,
          bytes |-> <<"%PDF", title>> \o SplitLines(body_text)]

DocxParagraph(line) == IF Strip(line) = <<>> THEN <<>> ELSE line

text_to_docx_bytes(title, body_text) ==
    LET lines == SplitLines(body_text)
    IN [raised |-> FALSE,
        bytes |-> <<"PK", title>> \o
                  [i \in 1..Len(lines) |-> DocxParagraph(lines[i])]]

\* ------------------------------------------------------------ the submit handler
\* the slice of line 145 ending at c_idx
resume_end_c_idx(result) == Index(result, CoverMarker) + Len(CoverMarker)

\* where the resume slice of line 145 ends
resume_end(result) == Index(result, CoverMarker)

split(result) ==
    IF In(ResumeMarker, result) /\ In(CoverMarker, result)
    THEN LET r_idx == Index(result, ResumeMarker) + Len(ResumeMarker)
             c_idx == Index(result, CoverMarker) + Len(CoverMarker)
         IN [branch |-> "delimiter",
             resume_text |-> Strip(Slice(result, r_idx, resume_end(result))),
             cover_text |-> Strip(Slice(result, c_idx, Len(result)))]
    ELSE LET lines == SplitLines(result)
         IN [branch |-> "fallback",
             resume_text |-> Join(Take(lines, ResumeLines)),
             cover_text |-> Join(Drop(lines, ResumeLines))]

ResumeTitle(n) == n \o <<" ", EmDash, " ">> \o <<"R", "e", "s", "u", "m", "e">>
CoverTitle(n) == n \o <<" ", EmDash, " ">> \o <<"C", "o", "v", "e", "r", " ", "L", "e", "t", "t", "e", "r">>

Download(label, data, file_name, mime) ==
    [label |-> label, data |-> data, file_name |-> file_name, mime |-> mime]

DocxMime == "application/vnd.openxmlformats-officedocument.wordprocessingml.document"

base_name(n) == ReplaceSpaces(Or(n, Candidate))

\* lines 160-174: the downloads offered, or the exception an exporter raised
\* (both conversions run before the first download_button)
prepare_downloads(fmt, n, resume, cover, ts) ==
    LET base == base_name(n)
    IN IF fmt = "TXT"
       THEN [raised |-> FALSE,
             downloads |->
               << Download("Download Resume (.txt)", resume,
                           <<base, "_resume_", ts, ".txt">>, "text/plain"),
                  Download("Download Cover Letter (.txt)", cover,
                           <<base, "_cover_", ts, ".txt">>, "text/plain") >>]
       ELSE IF fmt = "PDF"
       THEN LET resume_pdf == text_to_pdf_bytes(ResumeTitle(n), resume)
                cover_pdf == text_to_pdf_bytes(CoverTitle(n), cover)
            IN IF resume_pdf.raised \/ cover_pdf.raised
               THEN [raised |-> TRUE, downloads |-> <<>>]
               ELSE [raised |-> FALSE,
                     downloads |->
                       << Download("Download Resume (.pdf)", resume_pdf.bytes,
                                   <<base, "_resume_", ts, ".pdf">>, "application/pdf"),
                          Download("Download Cover Letter (.pdf)", cover_pdf.bytes,
                                   <<base, "_cover_", ts, ".pdf">>, "application/pdf") >>]
       ELSE LET resume_docx == text_to_docx_bytes(ResumeTitle(n), resume)
                cover_docx == text_to_docx_bytes(CoverTitle(n), cover)
            IN IF resume_docx.raised \/ cover_docx.raised
               THEN [raised |-> TRUE, downloads |-> <<>>]
               ELSE [raised |-> FALSE,
                     downloads |->
                       << Download("Download Resume (.docx)", resume_docx.bytes,
                                   <<base, "_resume_", ts, ".docx">>, DocxMime),
                          Download("Download Cover Letter (.docx)", cover_docx.bytes,
                                   <<base, "_cover_", ts, ".docx">>, DocxMime) >>]

\* ------------------------------------------------------------ state
VARIABLES
    OPENAI_KEY,     \* the credential read at start-up, PyNone when not set
    pc,             \* "idle", "calling" (inside call_openai), "done", "crashed"
    name, role, email, location, experience, education, skills, extra,
    tone, out_format,                     \* the form's widgets
    prompt,         \* the prompt sent, <<>> before one is built
    calls,          \* calls to ChatCompletion.create in this run of the script
    result,         \* what call_openai returned
    branch,         \* the arm of the split taken: "none", "delimiter", "fallback"
    resume_text, cover_text,
    messages,       \* st.warning/info/error/subheader/success, in order
    shown,          \* the texts st.code displayed
    downloads       \* the download buttons offered

widgets == <<name, role, email, location, experience, education, skills, extra,
             tone, out_format>>
outputs == <<prompt, calls, result, branch, resume_text, cover_text, messages,
             shown, downloads>>
vars == <<OPENAI_KEY, pc, widgets, outputs>>

Tones == {"professional", "friendly", "confident", "concise"}
Formats == {"TXT", "PDF", "DOCX"}

form ==
    [name |-> name, role |-> role, email |-> email, location |-> location,
     experience |-> experience, education |-> education, skills |-> skills,
     extra |-> extra, tone |-> tone, out_format |-> out_format]

\* ------------------------------------------------------------ inputs
Secrets == {PyNone, "", "sk-test"}
Environ == {PyNone, "", "sk-test"}

JaneDoe == <<"J", "a", "n", "e", " ", "D", "o", "e">>
DataAnalyst == <<"D", "a", "t", "a", " ", "A", "n", "a", "l", "y", "s", "t">>
SqlPython == <<"S", "Q", "L", ",", " ", "P", "y", "t", "h", "o", "n">>

\* the end-to-end scenario's profile, in each format
FewForms ==
    [name : {JaneDoe}, role : {DataAnalyst}, email : {<<>>}, location : {<<>>},
     experience : {<<>>}, education : {<<>>}, skills : {SqlPython},
     extra : {<<>>}, tone : {"professional"}, out_format : Formats]

ManyForms ==
    [name : {<<>>, <<" ", " ">>, JaneDoe},
     role : {<<>>, <<"\t">>, DataAnalyst},
     email : {<<>>, <<"a", "@", "b">>},
     location : {<<>>, <<" ">>},
     experience : {<<>>, <<" ", "x", "\n", "y", " ">>},
     education : {<<>>, <<"B", "S", "c">>},
     skills : {<<>>, SqlPython},
     extra : {<<>>, <<"\n">>},
     tone : {"professional", "concise"},
     out_format : Formats]

Timestamps == {"20240131_0959", "20240131_1000"}

\* the exceptions ChatCompletion.create, or reading resp.choices[0].message
\* .content.strip(), can raise
Causes == {"AuthenticationError", "RateLimitError", "AttributeError"}

RTail == SubSeq(ResumeMarker, 4, Len(ResumeMarker))
CTail == SubSeq(CoverMarker, 4, Len(CoverMarker))
Pieces == {ResumeMarker, CoverMarker, RTail, CTail, <<"\n", "A", "\n">>}

RECURSIVE Concats(_)
Concats(k) ==
    IF k = 0 THEN {<<>>}
    ELSE LET shorter == Concats(k - 1)
         IN shorter \cup {s \o p : s \in shorter, p \in Pieces}

FillerLine(k) ==
    IF k % 7 = 0 THEN <<>>
    ELSE IF k % 3 = 0 THEN <<"x">>
    ELSE IF k % 3 = 1 THEN <<"y">> ELSE <<"z", " ">>

\* lines a..b of a text without markers, separated by sep
RECURSIVE FillerRange(_, _, _)
FillerRange(a, b, sep) ==
    IF a > b THEN <<>>
    ELSE IF a = b THEN FillerLine(a)
    ELSE LET mid == (a + b) \div 2
         IN FillerRange(a, mid, sep) \o sep \o FillerRange(mid + 1, b, sep)

Filler(n, sep) == FillerRange(1, n, sep)

Example == ResumeMarker \o <<"\n", "A", "\n">> \o CoverMarker \o <<"\n", "B">>
Scenario ==
    ResumeMarker \o <<"\n">> \o JaneDoe \o <<" ", "-", " ">> \o DataAnalyst \o
    <<"\n">> \o CoverMarker \o <<"\n", "D", "e", "a", "r", ",", ".", ".", ".">>

ManyContents ==
    Concats(MaxPieces) \cup {Example, Scenario, <<" ", "\n">>}
    \cup {Filler(n, sep) : n \in 0..MaxLines, sep \in {<<"\n">>, <<"\r", "\n">>}}
    \cup {m \o <<"\n">> \o Filler(MaxLines, <<"\n">>) : m \in {ResumeMarker, CoverMarker}}

FewContents ==
    {<<>>, <<" ", "\n">>, Example, Scenario, Filler(3, <<"\n">>),
     <<Bullet, " ", "x">>}

\* ------------------------------------------------------------ behaviour
\* the page as a run of the script without a submission leaves it: the
\* widgets at their defaults, nothing generated
Page(key) ==
    /\ pc = "idle"
    /\ name = <<>> /\ role = <<>> /\ email = <<>> /\ location = <<>>
    /\ experience = <<>> /\ education = <<>> /\ skills = <<>> /\ extra = <<>>
    /\ tone = "professional" /\ out_format = "PDF"
    /\ prompt = <<>> /\ calls = 0 /\ result = None /\ branch = "none"
    /\ resume_text = <<>> /\ cover_text = <<>>
    /\ messages = Startup(key)
    /\ shown = <<>> /\ downloads = <<>>

Init ==
    /\ \E secret \in Secrets, env \in Environ : OPENAI_KEY = LoadKey(secret, env)
    /\ Page(OPENAI_KEY)

\* the page is loaded again after a run has ended; the key is not re-read
\* by the process
Reload ==
    /\ pc \in {"done", "crashed"}
    /\ pc' = "idle"
    /\ name' = <<>> /\ role' = <<>> /\ email' = <<>> /\ location' = <<>>
    /\ experience' = <<>> /\ education' = <<>> /\ skills' = <<>>
    /\ extra' = <<>> /\ tone' = "professional" /\ out_format' = "PDF"
    /\ prompt' = <<>> /\ calls' = 0 /\ result' = None /\ branch' = "none"
    /\ resume_text' = <<>> /\ cover_text' = <<>>
    /\ messages' = Startup(OPENAI_KEY)
    /\ shown' = <<>> /\ downloads' = <<>>
    /\ UNCHANGED OPENAI_KEY

\* the form is filled in and submitted
Fill(f) ==
    /\ name' = f.name /\ role' = f.role /\ email' = f.email
    /\ location' = f.location /\ experience' = f.experience
    /\ education' = f.education /\ skills' = f.skills /\ extra' = f.extra
    /\ tone' = f.tone /\ out_format' = f.out_format

\* lines 121-123: submitted without a key
SubmitNoKey(forms) ==
    /\ pc = "idle"
    /\ Missing(OPENAI_KEY)
    /\ \E f \in forms : Fill(f)
    /\ messages' = Startup(OPENAI_KEY) \o <<NoKeyError>>
    /\ prompt' = <<>> /\ calls' = 0 /\ result' = None /\ branch' = "none"
    /\ resume_text' = <<>> /\ cover_text' = <<>>
    /\ shown' = <<>> /\ downloads' = <<>>
    /\ pc' = "done"
    /\ UNCHANGED OPENAI_KEY

\* lines 124-138, up to the request being sent
SubmitCall(forms) ==
    /\ pc = "idle"
    /\ ~Missing(OPENAI_KEY)
    /\ \E f \in forms :
          /\ Fill(f)
          /\ prompt' = make_prompt(payload(f))
    /\ messages' = Startup(OPENAI_KEY) \o <<Generating>>
    /\ calls' = 1 /\ result' = None /\ branch' = "none"
    /\ resume_text' = <<>> /\ cover_text' = <<>>
    /\ shown' = <<>> /\ downloads' = <<>>
    /\ pc' = "calling"
    /\ UNCHANGED OPENAI_KEY

\* the call raised and is made again
ReceiveErrorRetry ==
    /\ pc = "calling"
    /\ \E e \in Causes : messages' = messages \o <<OpenAIError(e)>>
    /\ calls' = calls + 1
    /\ UNCHANGED <<OPENAI_KEY, pc, widgets, prompt, result, branch, resume_text,
                   cover_text, shown, downloads>>

\* lines 61-63 and 177-178: the call raised
ReceiveError ==
    /\ pc = "calling"
    /\ \E e \in Causes :
          messages' = messages \o <<OpenAIError(e), GenerationFailed>>
    /\ result' = None
    /\ pc' = "done"
    /\ UNCHANGED <<OPENAI_KEY, widgets, prompt, calls, branch, resume_text,
                   cover_text, shown, downloads>>

\* lines 60 and 139-178: the call returned content
ReceiveText(contents) ==
    /\ pc = "calling"
    /\ \E content \in contents, ts \in Timestamps :
          LET r == Text(Strip(content))
              parts == split(r.text)
              files == prepare_downloads(out_format, name, parts.resume_text,
                                         parts.cover_text, ts)
              display ==
                  <<Subheader("Generated Resume"),
                    Subheader("Generated Cover Letter")>>
          IN /\ result' = r
             /\ IF ~Truthy(r)
                THEN /\ messages' = messages \o <<GenerationFailed>>
                     /\ pc' = "done"
                     /\ UNCHANGED <<branch, resume_text, cover_text, shown,
                                    downloads>>
                ELSE /\ branch' = parts.branch
                     /\ resume_text' = parts.resume_text
                     /\ cover_text' = parts.cover_text
                     /\ shown' = <<parts.resume_text,
                                   Or(parts.cover_text, NoCoverDetected)>>
                     /\ downloads' = files.downloads
                     /\ IF files.raised
                        THEN /\ messages' = messages \o display \o
                                            <<Uncaught("UnicodeEncodeError")>>
                             /\ pc' = "crashed"
                        ELSE /\ messages' = messages \o display \o <<Generated>>
                             /\ pc' = "done"
    /\ UNCHANGED <<OPENAI_KEY, widgets, prompt, calls>>

Next ==
    \/ SubmitNoKey(FewForms)
    \/ SubmitCall(FewForms)
    \/ ReceiveError
    \/ ReceiveText(ManyContents)
    \/ Reload

Spec == Init /\ [][Next]_vars

NextForm ==
    \/ SubmitNoKey(ManyForms)
    \/ SubmitCall(ManyForms)
    \/ ReceiveError
    \/ ReceiveText(FewContents)
    \/ Reload

SpecForm == Init /\ [][NextForm]_vars

\* ------------------------------------------------------------ notions the claims use
Finished == pc \in {"done", "crashed"}
KeyAbsent == OPENAI_KEY = PyNone \/ OPENAI_KEY = ""
\* the call came back with a non-empty text
Generated_ok == Finished /\ calls = 1 /\ ~result.none /\ result.text # <<>>
\* the call raised, or came back with nothing
Failed == Finished /\ calls = 1 /\ (result.none \/ result.text = <<>>)

Blank(s) == \A i \in 1..Len(s) : s[i] \in Whitespace

\* the offsets at which m occurs in s
Occurs(m, s) ==
    {k \in 0..(Len(s) - Len(m)) : \A i \in 1..Len(m) : s[k + i] = m[i]}
Contains(s, m) == Occurs(m, s) # {}
First(m, s) == CHOOSE k \in Occurs(m, s) : \A j \in Occurs(m, s) : k <= j

\* the characters of s at offsets a .. b-1 (none when b <= a)
Between(s, a, b) == [i \in 1..(b - a) |-> s[a + i]]

\* s without its leading and trailing whitespace
Trimmed(s) ==
    LET keep == {i \in 1..Len(s) : s[i] \notin Whitespace}
    IN IF keep = {} THEN <<>>
       ELSE LET lo == CHOOSE i \in keep : \A j \in keep : i <= j
                hi == CHOOSE i \in keep : \A j \in keep : j <= i
            IN Between(s, lo - 1, hi)

\* the positions at which a line break of s ends, and where that break starts
Breaks(s) ==
    {i \in 1..Len(s) :
        \/ s[i] = "\n"
        \/ s[i] = "\r" /\ ~(i < Len(s) /\ s[i + 1] = "\n")}
BreakStart(s, i) == IF s[i] = "\n" /\ i > 1 /\ s[i - 1] = "\r" THEN i - 1 ELSE i
KthBreak(s, k) == CHOOSE i \in Breaks(s) : Cardinality({j \in Breaks(s) : j <= i}) = k
NumLines(s) ==
    Cardinality(Breaks(s)) + (IF s # <<>> /\ Len(s) \notin Breaks(s) THEN 1 ELSE 0)
LineAt(s, k) ==
    Between(s,
            IF k = 1 THEN 0 ELSE KthBreak(s, k - 1),
            IF k <= Cardinality(Breaks(s)) THEN BreakStart(s, KthBreak(s, k)) - 1
            ELSE Len(s))
\* lines a..b of s, a newline between two lines
RECURSIVE JoinedLines(_, _, _)
JoinedLines(s, a, b) ==
    IF a > b THEN <<>>
    ELSE IF a = b THEN LineAt(s, a)
    ELSE LET mid == (a + b) \div 2
         IN JoinedLines(s, a, mid) \o <<"\n">> \o JoinedLines(s, mid + 1, b)
Min(a, b) == IF a < b THEN a ELSE b

Texts(kind) == {i \in 1..Len(messages) : messages[i].kind = kind}

\* ------------------------------------------------------------ claims

\* C1: a submission made while the key is absent or empty never reaches the
\* generation client: no prompt is built, no call is made, nothing is split,
\* shown or offered, and the run adds to the page exactly the one error
\* message about the missing key (after the start-up warning every run of
\* the script shows for a missing key).
C1_NoKeyNoCall ==
    KeyAbsent =>
        /\ pc \in {"idle", "done"}
        /\ calls = 0 /\ prompt = <<>> /\ result = None /\ branch = "none"
        /\ resume_text = <<>> /\ cover_text = <<>>
        /\ shown = <<>> /\ downloads = <<>>
        /\ pc = "idle" => messages = <<KeyWarning>>
        /\ pc = "done" => messages = <<KeyWarning, NoKeyError>>
C1_Witness == OPENAI_KEY = "" /\ pc = "done" /\ name = JaneDoe

\* C2: when the response text contains both markers, the resume section is
\* the trimmed text between the end of the first resume marker and the start
\* of the first cover-letter marker, and the cover-letter section is the
\* trimmed text after the end of the first cover-letter marker; the text
\* "---RESUME---\nA\n---COVER LETTER---\nB" gives "A" and "B".
C2_DelimiterSplit ==
    LET t == result.text
    IN (Generated_ok /\ Contains(t, ResumeMarker) /\ Contains(t, CoverMarker)) =>
          /\ resume_text =
                Trimmed(Between(t, First(ResumeMarker, t) + Len(ResumeMarker),
                                First(CoverMarker, t)))
          /\ cover_text =
                Trimmed(Between(t, First(CoverMarker, t) + Len(CoverMarker), Len(t)))
          /\ t = Example => resume_text = <<"A">> /\ cover_text = <<"B">>
C2_Witness ==
    Generated_ok /\ result.text = Example /\ resume_text = <<"A">>
    /\ cover_text = <<"B">>

\* C3: the fallback is taken exactly when a marker is missing from the
\* response text; it gives the first 40 lines joined by newlines as resume
\* section and the remaining lines joined by newlines as cover-letter
\* section, which is empty for a text of 40 lines or fewer.
C3_Fallback ==
    LET t == result.text
        n == NumLines(t)
    IN Generated_ok =>
          /\ branch = "fallback" <=>
                ~(Contains(t, ResumeMarker) /\ Contains(t, CoverMarker))
          /\ branch = "fallback" =>
                /\ resume_text = JoinedLines(t, 1, Min(n, 40))
                /\ cover_text = JoinedLines(t, 41, n)
                /\ n <= 40 => cover_text = <<>>
C3_Witness ==
    /\ Generated_ok /\ branch = "fallback"
    /\ NumLines(result.text) = 50
    /\ NumLines(resume_text) = 40
    /\ NumLines(cover_text) = 10

\* C4 as claimed: every failed call, an empty response text included, shows
\* an error message that carries the cause, and the run halts.
C4_FailureCarriesCause ==
    Failed =>
        /\ \E i \in Texts("error") : messages[i].cause # ""
        /\ branch = "none" /\ shown = <<>> /\ downloads = <<>>
        /\ Texts("success") = {} /\ Texts("subheader") = {}
\* C4 as amended: every failed call ends the run with the error message
\* "Generation failed..." and halts (nothing split, shown, exported, offered,
\* no success message); the message "OpenAI error: <cause>" precedes it when
\* the call raised, and no message carries a cause when the response text
\* was empty.
C4_FailureHalts ==
    Failed =>
        /\ pc = "done"
        /\ messages[Len(messages)] = GenerationFailed
        /\ branch = "none" /\ resume_text = <<>> /\ cover_text = <<>>
        /\ shown = <<>> /\ downloads = <<>>
        /\ Texts("success") = {} /\ Texts("subheader") = {}
        /\ result.none =>
              \E e \in Causes : messages[Len(messages) - 1] = OpenAIError(e)
        /\ ~result.none => \A i \in 1..Len(messages) : messages[i].cause = ""
C4_Witness ==
    /\ Failed /\ ~result.none /\ result.text = <<>>
    /\ messages = <<Generating, GenerationFailed>>

C6_FileNames ==
    LET base == IF Blank(name) THEN Candidate
                ELSE [i \in 1..Len(name) |-> IF name[i] = " " THEN "_" ELSE name[i]]
        ext == IF out_format = "TXT" THEN ".txt"
               ELSE IF out_format = "PDF" THEN ".pdf" ELSE ".docx"
    IN (pc = "done" /\ downloads # <<>>) =>
          /\ Len(downloads) = 2
          /\ \E ts \in Timestamps :
                /\ downloads[1].file_name = <<base, "_resume_", ts, ext>>
                /\ downloads[2].file_name = <<base, "_cover_", ts, ext>>

\* C7: with a blank name and a blank target role the prompt carries
\* "Name: Candidate Name" and "Target role: Target Role"; every field has
\* its labelled line in the prompt, and the line of a field without a value
\* carries the empty string.
PromptLabels ==
    <<"Name", "Target role", "Location", "Email", "Experience (raw text)",
      "Education", "Skills", "Tone", "Extra notes">>
C7_Placeholders ==
    calls = 1 =>
        /\ Len(prompt) = Len(PromptLabels)
        /\ \A i \in 1..Len(PromptLabels) : prompt[i].label = PromptLabels[i]
        /\ prompt[1].value # <<>> /\ prompt[2].value # <<>>
        /\ Blank(name) => prompt[1].value = CandidateName
        /\ Blank(role) => prompt[2].value = TargetRole
        /\ Blank(location) => prompt[3].value = <<>>
        /\ Blank(email) => prompt[4].value = <<>>
        /\ Blank(experience) => prompt[5].value = <<>>
        /\ Blank(education) => prompt[6].value = <<>>
        /\ Blank(skills) => prompt[7].value = <<>>
        /\ prompt[8].value = <<tone>>
        /\ Blank(extra) => prompt[9].value = <<>>
C7_Witness ==
    /\ calls = 1 /\ name = <<" ", " ">> /\ role = <<"\t">> /\ email = <<>>
    /\ location = <<" ">> /\ extra = <<"\n">>
    /\ prompt[1].value = CandidateName /\ prompt[2].value = TargetRole

\* C8: a submission whose generation succeeded offers exactly two files,
\* the resume and the cover letter, in the selected format with its content
\* type; in TXT the files' contents are the two sections unchanged.
C8_TwoArtifacts ==
    LET mime == IF out_format = "TXT" THEN "text/plain"
                ELSE IF out_format = "PDF" THEN "application/pdf" ELSE DocxMime
        ext == IF out_format = "TXT" THEN ".txt"
               ELSE IF out_format = "PDF" THEN ".pdf" ELSE ".docx"
    IN Generated_ok =>
          /\ Len(downloads) = 2
          /\ \A i \in 1..2 :
                /\ downloads[i].mime = mime
                /\ downloads[i].file_name[4] = ext
          /\ out_format = "TXT" =>
                /\ downloads[1].data = resume_text
                /\ downloads[2].data = cover_text

\* C9: after a successful generation the PDF and DOCX exporters return
\* non-empty bytes and do not raise, whatever the title and the body: the
\* run is never aborted by an exporter.
C9_ExportersSucceed ==
    (Generated_ok /\ out_format \in {"PDF", "DOCX"}) =>
        /\ pc = "done"
        /\ Texts("exception") = {}
        /\ Len(downloads) = 2
        /\ \A i \in 1..2 : Len(downloads[i].data) > 0

\* C10 as claimed: with both markers present the resume section never
\* contains the cover-letter marker; when the first cover-letter marker
\* comes before the first resume marker, the delimiter arm is taken, the
\* resume section is empty and the cover-letter section is the trimmed text
\* after the first cover-letter marker, which still contains the resume
\* marker.
CoverFirst(t) ==
    /\ Contains(t, ResumeMarker) /\ Contains(t, CoverMarker)
    /\ First(CoverMarker, t) < First(ResumeMarker, t)
C10_MarkerOrder ==
    LET t == result.text
    IN (Generated_ok /\ Contains(t, ResumeMarker) /\ Contains(t, CoverMarker)) =>
          /\ ~Contains(resume_text, CoverMarker)
          /\ CoverFirst(t) =>
                /\ branch = "delimiter"
                /\ resume_text = <<>>
                /\ cover_text =
                      Trimmed(Between(t, First(CoverMarker, t) + Len(CoverMarker),
                                      Len(t)))
                /\ Contains(cover_text, ResumeMarker)
\* C10 as amended: the same, except that the cover-letter section contains
\* the resume marker exactly when a resume marker starts at or after the end
\* of the first cover-letter marker; it does not when the only resume marker
\* overlaps the closing dashes of the cover-letter marker.
C10_MarkerOrderAmended ==
    LET t == result.text
    IN (Generated_ok /\ Contains(t, ResumeMarker) /\ Contains(t, CoverMarker)) =>
          /\ ~Contains(resume_text, CoverMarker)
          /\ CoverFirst(t) =>
                /\ branch = "delimiter"
                /\ resume_text = <<>>
                /\ cover_text =
                      Trimmed(Between(t, First(CoverMarker, t) + Len(CoverMarker),
                                      Len(t)))
                /\ Contains(cover_text, ResumeMarker) <=>
                      \E k \in Occurs(ResumeMarker, t) :
                          k >= First(CoverMarker, t) + Len(CoverMarker)
C10_Witness ==
    /\ Generated_ok /\ result.text = CoverMarker \o RTail
    /\ branch = "delimiter" /\ resume_text = <<>> /\ cover_text = RTail
====
